---- MODULE Spec2Model ----
(***************************************************************************)
(* scripts/recon-venues.py: the venue reconnaissance run.                  *)
(*                                                                         *)
(* main() loads the configured domains, assembles candidate entries from   *)
(* the directory feed or from an input file, probes every entry on a pool  *)
(* of ten worker threads, collects the results as they complete, writes    *)
(* the TSV report and prints the summary.                                  *)
(*                                                                         *)
(* Python strings are TLA+ strings (Len, SubSeq, Head, Tail and \o work on *)
(* them); None is the empty tuple and a present value a one-element tuple. *)
(***************************************************************************)
EXTENDS Integers, Sequences, FiniteSets, TLC

(***************************************************************************)
(* String helpers: the str methods and the regular-expression searches the *)
(* script uses.                                                            *)
(***************************************************************************)
None == <<>>

Some(v) == <<v>>

\* the element of a one-element set; The({e(x) : x \in {v}}) is e(v) with v
\* evaluated once
The(S) == CHOOSE x \in S : TRUE

Min(a, b) == IF a <= b THEN a ELSE b

Range(s) == {s[i] : i \in 1..Len(s)}

\* s.startswith(p)
StartsWith(s, p) == Len(s) >= Len(p) /\ SubSeq(s, 1, Len(p)) = p

\* p in s: substring search, also what re.search does for a literal pattern
Contains(s, p) == \E i \in 1..(Len(s) - Len(p) + 1) : SubSeq(s, i, i + Len(p) - 1) = p

\* s.find(p) + 1: the position of the first occurrence, 0 when absent
IndexOf(s, p) ==
    IF Contains(s, p)
    THEN CHOOSE i \in 1..(Len(s) - Len(p) + 1) :
            /\ SubSeq(s, i, i + Len(p) - 1) = p
            /\ \A j \in 1..(i - 1) : SubSeq(s, j, j + Len(p) - 1) # p
    ELSE 0

UpperLetters == "ABCDEFGHIJKLMNOPQRSTUVWXYZ"

LowerLetters == "abcdefghijklmnopqrstuvwxyz"

\* the lowercase letter of every uppercase letter
LowerOf ==
    [c \in {SubSeq(UpperLetters, i, i) : i \in 1..Len(UpperLetters)} |->
        LET i == IndexOf(UpperLetters, c) IN SubSeq(LowerLetters, i, i)]

LowerChar(c) == IF c \in DOMAIN LowerOf THEN LowerOf[c] ELSE c

RECURSIVE Lower(_)
\* s.lower()
Lower(s) == IF s = "" THEN "" ELSE LowerChar(Head(s)) \o Lower(Tail(s))

RECURSIVE LStrip(_, _)
\* s.lstrip(chars): drops every leading character that occurs in chars
LStrip(s, chars) ==
    IF s # "" /\ Contains(chars, Head(s)) THEN LStrip(Tail(s), chars) ELSE s

RECURSIVE RStrip(_, _)
\* s.rstrip(chars)
RStrip(s, chars) ==
    IF s # "" /\ Contains(chars, SubSeq(s, Len(s), Len(s)))
    THEN RStrip(SubSeq(s, 1, Len(s) - 1), chars)
    ELSE s

Whitespace == " \t"

\* s.strip()
Strip(s) == RStrip(LStrip(s, Whitespace), Whitespace)

\* s[:n]
Truncate(s, n) == SubSeq(s, 1, Min(n, Len(s)))

RECURSIVE Split(_, _)
\* s.split(sep) for a one-character sep
Split(s, sep) ==
    LET i == IndexOf(s, sep)
    IN IF i = 0 THEN <<s>>
       ELSE <<SubSeq(s, 1, i - 1)>> \o Split(SubSeq(s, i + 1, Len(s)), sep)

RECURSIVE Join(_, _)
\* sep.join(parts)
Join(parts, sep) ==
    IF parts = <<>> THEN ""
    ELSE IF Len(parts) = 1 THEN parts[1]
    ELSE parts[1] \o sep \o Join(Tail(parts), sep)

Digits == "0123456789"

RECURSIVE Str(_)
\* str(n) for n >= 0
Str(n) ==
    IF n < 10 THEN SubSeq(Digits, n + 1, n + 1)
    ELSE Str(n \div 10) \o SubSeq(Digits, (n % 10) + 1, (n % 10) + 1)

\* re.search of an alternation of literals, re.IGNORECASE
SearchAny(alts, s) == \E lowered \in {Lower(s)} : \E a \in alts : Contains(lowered, a)

(***************************************************************************)
(* urllib.parse as the script uses it.                                     *)
(***************************************************************************)
SchemeChars == UpperLetters \o LowerLetters \o Digits \o "+-."

\* the part of a URL after "scheme:", or the whole text when it has no scheme
AfterScheme(u) ==
    LET i == IndexOf(u, ":")
    IN IF i > 1 /\ \A k \in 1..(i - 1) : Contains(SchemeChars, SubSeq(u, k, k))
       THEN SubSeq(u, i + 1, Len(u))
       ELSE u

\* the first position of "/", "?" or "#" in s, Len(s) + 1 when there is none
NetlocEnd(s) ==
    LET stops == {i \in 1..Len(s) : SubSeq(s, i, i) \in {"/", "?", "#"}}
    IN IF stops = {} THEN Len(s) + 1
       ELSE CHOOSE i \in stops : \A j \in stops : i <= j

\* urlparse(u).netloc
Netloc(u) ==
    The({IF StartsWith(rest, "//")
         THEN The({SubSeq(body, 1, NetlocEnd(body) - 1) :
                     body \in {SubSeq(rest, 3, Len(rest))}})
         ELSE "" :
           rest \in {AfterScheme(u)}})

\* urlparse raises ValueError on a netloc with unbalanced brackets
InvalidUrl(u) == Contains(Netloc(u), "[") /\ ~Contains(Netloc(u), "]")

\* parsed.netloc.lower().lstrip("www.")
DomainOf(u) ==
    The({LStrip(lowered, "www.") : lowered \in {Lower(netloc) : netloc \in {Netloc(u)}}})

(***************************************************************************)
(* Constants of the script.                                                *)
(***************************************************************************)
ARTS_TAGS ==
    { "topic/art-form", "instance-of/event/festival", "instance-of/place/event-venue",
      "instance-of/place/gallery", "instance-of/place/theatre", "instance-of/organization",
      "topic/art-form/music", "topic/art-form/theatre", "topic/art-form/dance",
      "topic/art-form/art", "topic/art-form/film", "topic/art-form/performance",
      "topic/art-form/comedy", "topic/art-form/media-arts" }

\* the alternatives of the pattern, lowercased (the search ignores case)
EVENT_LINK_KEYWORDS ==
    { "event", "calendar", "concert", "performance", "season", "program", "show",
      "whats-on", "what-s-on" }

\* (name, alternatives) in the order of the dict
TECH_PATTERNS ==
    << [name |-> "wordpress", alts |-> {"wp-content", "wp-includes", "wordpress"}],
       [name |-> "tribe-events",
        alts |-> {"tribe_events", "tribe-events", "tribe/events", "the-events-calendar"}],
       [name |-> "squarespace", alts |-> {"squarespace"}],
       [name |-> "wix", alts |-> {"wix.com", "wixsite", "wixstatic"}],
       [name |-> "webflow", alts |-> {"webflow.io", "webflow.com"}],
       [name |-> "nextjs", alts |-> {"__next_data__", "next/static", "_next/static"}],
       [name |-> "drupal", alts |-> {"drupal", "sites/default/files"}],
       [name |-> "elementor", alts |-> {"elementor"}] >>

SKIP_DOMAINS ==
    { "instagram.com", "facebook.com", "twitter.com", "x.com", "tiktok.com",
      "youtube.com", "linkedin.com", "eventbrite.com", "ticketmaster.com",
      "meetup.com", "bsky.app", "luma.com", "discord.gg", "substack.com",
      "wikipedia.org", "toronto.ca", "canada.ca" }

MAX_WORKERS == 10

MAX_CANDIDATE_URLS == 10

MAX_ERROR_LEN == 80

(***************************************************************************)
(* Step 4: the already-configured domains.                                 *)
(***************************************************************************)
\* the longest prefix of s without a character of stops
TakeUntil(s, stops) ==
    LET hits == {i \in 1..Len(s) : Contains(stops, SubSeq(s, i, i))}
    IN IF hits = {} THEN s
       ELSE SubSeq(s, 1, (CHOOSE i \in hits : \A j \in hits : i <= j) - 1)

\* re.match(r'^\s*url:\s*["\']?(https?://[^\s"\']+)', line): group 1 in a
\* one-element tuple, None when the line does not match
UrlFieldMatch(line) ==
    LET Quoted(s2) == IF s2 # "" /\ Head(s2) \in {"\"", "'"} THEN Tail(s2) ELSE s2
        Scheme(s3) == IF StartsWith(s3, "https://") THEN "https://"
                      ELSE IF StartsWith(s3, "http://") THEN "http://"
                      ELSE ""
        Group(s3, head) ==
            The({IF head # "" /\ tail # "" THEN Some(head \o tail) ELSE None :
                   tail \in {TakeUntil(SubSeq(s3, Len(head) + 1, Len(s3)),
                                       Whitespace \o "\"'")}})
        Field(s2) ==
            The({The({Group(s3, head) : head \in {Scheme(s3)}}) : s3 \in {Quoted(s2)}})
    IN The({IF StartsWith(s1, "url:")
            THEN The({Field(s2) : s2 \in {LStrip(SubSeq(s1, 5, Len(s1)), Whitespace)}})
            ELSE None :
              s1 \in {LStrip(line, Whitespace)}})

\* yaml_file of the glob "*.yaml"
IsYaml(name) == Len(name) >= 5 /\ SubSeq(name, Len(name) - 4, Len(name)) = ".yaml"

\* the domains one config file adds
FileDomains(f) ==
    {DomainOf(m[1]) : m \in {UrlFieldMatch(f.lines[i]) : i \in 1..Len(f.lines)} \ {None}}

\* the files the loop reads: those of the glob whose name does not start with "_"
ScannedFiles(dir) == {f \in dir.files : IsYaml(f.name) /\ ~StartsWith(f.name, "_")}

\* load_configured_domains(): the set, or the OSError of read_text on a file
\* that cannot be read, which nothing catches
load_configured_domains(dir) ==
    IF ~dir.exists THEN [raised |-> FALSE, domains |-> {}]
    ELSE IF \E f \in ScannedFiles(dir) : ~f.readable
    THEN [raised |-> TRUE, domains |-> {}]
    ELSE [raised |-> FALSE,
          domains |-> UNION {FileDomains(f) : f \in ScannedFiles(dir)}]

(***************************************************************************)
(* Step 1: discovery from the directory feed.                              *)
(***************************************************************************)
is_arts_community(entry) ==
    \E i \in 1..Len(entry.tags) : \E arts_tag \in ARTS_TAGS :
        StartsWith(entry.tags[i], arts_tag)

NoCounts ==
    [urls |-> <<>>, skipped_no_arts |-> 0, skipped_no_url |-> 0,
     skipped_social_only |-> 0, skipped_already_configured |-> 0]

\* FilterStep with the arts check moved in front of the denylist check
FilterStepArtsFirst(acc, entry, configured_domains) ==
    LET link == entry.link
        Checked(domain) ==
            IF ~is_arts_community(entry)
            THEN [acc EXCEPT !.skipped_no_arts = @ + 1]
            ELSE IF \E p \in SKIP_DOMAINS : Contains(domain, p)
            THEN [acc EXCEPT !.skipped_social_only = @ + 1]
            ELSE IF LStrip(domain, "www.") \in configured_domains
                    \/ domain \in configured_domains
            THEN [acc EXCEPT !.skipped_already_configured = @ + 1]
            ELSE [acc EXCEPT !.urls = Append(@, [name |-> entry.name, url |-> link,
                                                 domain |-> domain, tags |-> entry.tags])]
    IN IF link = "" \/ ~StartsWith(link, "http")
       THEN [acc EXCEPT !.skipped_no_url = @ + 1]
       ELSE The({Checked(domain) : domain \in {DomainOf(link)}})

\* one pass of the loop over communities: the entry is counted under the
\* first check it fails, or appended to urls
FilterStep(acc, entry, configured_domains) ==
    LET link == entry.link
        Checked(domain) ==
            IF \E p \in SKIP_DOMAINS : Contains(domain, p)
            THEN [acc EXCEPT !.skipped_social_only = @ + 1]
            ELSE IF LStrip(domain, "www.") \in configured_domains
                    \/ domain \in configured_domains
            THEN [acc EXCEPT !.skipped_already_configured = @ + 1]
            ELSE IF ~is_arts_community(entry)
            THEN [acc EXCEPT !.skipped_no_arts = @ + 1]
            ELSE [acc EXCEPT !.urls = Append(@, [name |-> entry.name, url |-> link,
                                                 domain |-> domain, tags |-> entry.tags])]
    IN IF link = "" \/ ~StartsWith(link, "http")
       THEN [acc EXCEPT !.skipped_no_url = @ + 1]
       ELSE The({Checked(domain) : domain \in {DomainOf(link)}})

RECURSIVE FilterLoop(_, _, _)
FilterLoop(acc, communities, configured_domains) ==
    IF communities = <<>> THEN acc
    ELSE FilterLoop(FilterStep(acc, Head(communities), configured_domains),
                    Tail(communities), configured_domains)

\* discover_t0ronto_urls without the try block
discover_t0ronto_urls_unchecked(configured_domains, response) ==
    FilterLoop(NoCounts, response.communities, configured_domains)

\* the try block raises: requests.get, raise_for_status or resp.json()
FeedFails(response) ==
    response.raises \/ response.status >= 400 \/ ~response.decodes

\* discover_t0ronto_urls(configured_domains): urls and the skip counters; a
\* failed request, a bad status or undecodable JSON returns the empty list
discover_t0ronto_urls(configured_domains, response) ==
    IF FeedFails(response) THEN NoCounts
    ELSE FilterLoop(NoCounts, response.communities, configured_domains)

RECURSIVE InputEntriesKeepsBlank(_)
\* InputEntries without the test that drops blank lines
InputEntriesKeepsBlank(lines) ==
    IF lines = <<>> THEN <<>>
    ELSE LET Entry(u, domain) == [name |-> domain, url |-> u, domain |-> domain,
                                   tags |-> <<>>]
         IN <<The({Entry(u, DomainOf(u)) : u \in {Strip(Head(lines))}})>>
              \o InputEntriesKeepsBlank(Tail(lines))

\* the entries main() builds from the lines of the input file
RECURSIVE InputEntries(_)
InputEntries(lines) ==
    IF lines = <<>> THEN <<>>
    ELSE LET Entry(u, domain) == [name |-> domain, url |-> u, domain |-> domain,
                                   tags |-> <<>>]
             Line(u) == IF u = "" THEN <<>>
                        ELSE <<The({Entry(u, domain) : domain \in {DomainOf(u)}})>>
         IN The({Line(u) : u \in {Strip(Head(lines))}}) \o InputEntries(Tail(lines))

(***************************************************************************)
(* Step 2: the Prober.  A page is what the parsers see of a response body: *)
(* html, the text the fingerprints search; scripts, the ld+json blocks in  *)
(* page order, each with whether json.loads accepts it and its items (the  *)
(* list, or the single value); anchors, the a elements that carry an href. *)
(***************************************************************************)
\* detect_tech that appends "static" whether or not a rule matched
detect_tech_always_static(html) ==
    LET Found(lowered) ==
            LET Matches(p) == \E a \in p.alts : Contains(lowered, a)
                hits == SelectSeq(TECH_PATTERNS, Matches)
            IN [i \in 1..Len(hits) |-> hits[i].name]
    IN The({Append(found, "static") : found \in {Found(lowered) : lowered \in {Lower(html)}}})

detect_tech(html) ==
    LET Found(lowered) ==
            LET Matches(p) == \E a \in p.alts : Contains(lowered, a)
                hits == SelectSeq(TECH_PATTERNS, Matches)
            IN [i \in 1..Len(hits) |-> hits[i].name]
        Named(found) == IF found = <<>> THEN <<"static">> ELSE found
    IN The({Named(found) : found \in {Found(lowered) : lowered \in {Lower(html)}}})

RECURSIVE AnyEventType(_)
\* any("event" in t.lower() for t in types): "yes", "no", or "raise" when an
\* element that is no string is reached first (it has no lower())
AnyEventType(types) ==
    IF types = <<>> THEN "no"
    ELSE IF ~Head(types).is_str THEN "raise"
    ELSE IF SearchAny({"event"}, Head(types).s) THEN "yes"
    ELSE AnyEventType(Tail(types))

\* what one item adds to the count: "yes", "no" or "raise"
ItemIsEvent(item) ==
    IF ~item.is_dict THEN "no"
    ELSE IF item.type.kind = "list" THEN AnyEventType(item.type.strs)
    ELSE IF item.type.kind = "str" /\ SearchAny({"event"}, item.type.strs[1].s)
    THEN "yes"
    ELSE "no"

RECURSIVE CountItems(_, _)
CountItems(items, count) ==
    IF items = <<>> THEN [raised |-> FALSE, count |-> count]
    ELSE LET r == ItemIsEvent(Head(items))
         IN IF r = "raise" THEN [raised |-> TRUE, count |-> count]
            ELSE CountItems(Tail(items), IF r = "yes" THEN count + 1 ELSE count)

RECURSIVE ParsedItems(_)
\* the items of the blocks json.loads accepts, in page order
ParsedItems(scripts) ==
    IF scripts = <<>> THEN <<>>
    ELSE (IF Head(scripts).parses THEN Head(scripts).items ELSE <<>>)
         \o ParsedItems(Tail(scripts))

AttributeErrorText == "'int' object has no attribute 'lower'"

\* count_jsonld_events(html): the count, or the AttributeError of t.lower()
count_jsonld_events(scripts) == CountItems(ParsedItems(scripts), 0)

\* the path of an absolute URL up to its last "/", "/" when it has none
BaseDir(base) ==
    LET rest == AfterScheme(base)
        body == SubSeq(rest, 3, Len(rest))
        path == TakeUntil(SubSeq(body, NetlocEnd(body), Len(body)), "?#")
        slashes == {i \in 1..Len(path) : SubSeq(path, i, i) = "/"}
    IN IF slashes = {} THEN "/"
       ELSE SubSeq(path, 1, CHOOSE i \in slashes : \A j \in slashes : j <= i)

\* urljoin(base, href) for an absolute base
urljoin(base, href) ==
    LET scheme == SubSeq(base, 1, IndexOf(base, ":") - 1)
        origin == scheme \o "://" \o Netloc(base)
    IN IF AfterScheme(href) # href THEN href
       ELSE IF StartsWith(href, "//") THEN scheme \o ":" \o href
       ELSE IF StartsWith(href, "/") THEN origin \o href
       ELSE origin \o BaseDir(base) \o href

ValueErrorText == "Invalid IPv6 URL"

RECURSIVE HarvestLoop(_, _, _)
\* the loop over the anchors: results so far (seen is its range)
HarvestLoop(anchors, base_url, results) ==
    IF anchors = <<>> THEN [raised |-> FALSE, urls |-> results]
    ELSE LET a == Head(anchors)
             Seen(full) == IF full \in Range(results) THEN results
                           ELSE Append(results, full)
             Anchor(href) ==
                 IF href = "" \/ StartsWith(href, "#") \/ StartsWith(href, "mailto:")
                 THEN HarvestLoop(Tail(anchors), base_url, results)
                 ELSE IF SearchAny(EVENT_LINK_KEYWORDS, href)
                         \/ SearchAny(EVENT_LINK_KEYWORDS, Strip(a.text))
                 THEN IF InvalidUrl(href) THEN [raised |-> TRUE, urls |-> results]
                      ELSE The({HarvestLoop(Tail(anchors), base_url, seen) :
                                  seen \in {Seen(full) : full \in {urljoin(base_url, href)}}})
                 ELSE HarvestLoop(Tail(anchors), base_url, results)
         IN The({Anchor(href) : href \in {Strip(a.href)}})

\* find_candidate_event_links without the cap
find_candidate_event_links_uncapped(anchors, base_url) ==
    HarvestLoop(anchors, base_url, <<>>)

\* find_candidate_event_links(html, base_url): results[:10], or the ValueError
\* urljoin raises on a malformed href
find_candidate_event_links(anchors, base_url) ==
    LET r == HarvestLoop(anchors, base_url, <<>>)
    IN [raised |-> r.raised,
        urls |-> SubSeq(r.urls, 1, Min(MAX_CANDIDATE_URLS, Len(r.urls)))]

\* check_subpage that sends a GET at once, without the HEAD
check_subpage_get_only(sub, base_url, path) ==
    LET Check(url) ==
            LET get == <<"GET " \o url>>
            IN IF sub.get.raises THEN [found |-> FALSE, requests |-> get]
               ELSE [found |-> sub.get.status = 200, requests |-> get]
    IN The({Check(url) : url \in {RStrip(base_url, "/") \o path}})

\* check_subpage(session, base_url, path) against a server that answers HEAD
\* and GET of that URL as sub says: the verdict and the requests sent
check_subpage(sub, base_url, path) ==
    LET Check(url) ==
            LET head == <<"HEAD " \o url>>
            IN IF sub.head.raises THEN [found |-> FALSE, requests |-> head]
               ELSE IF sub.head.status = 405
               THEN IF sub.get.raises
                    THEN [found |-> FALSE, requests |-> head \o <<"GET " \o url>>]
                    ELSE [found |-> sub.get.status = 200,
                          requests |-> head \o <<"GET " \o url>>]
               ELSE [found |-> sub.head.status = 200, requests |-> head]
    IN The({Check(url) : url \in {RStrip(base_url, "/") \o path}})

\* TierClassification with the T2 rule tried before the WordPress/Drupal rule
TierClassificationT2First(jsonld_event_count, tech, events_subpage, candidate_urls) ==
    IF jsonld_event_count > 0 THEN "T0"
    ELSE IF \E t \in {"squarespace", "wix", "nextjs", "elementor", "webflow"} :
                t \in Range(tech)
    THEN "T2"
    ELSE IF ("wordpress" \in Range(tech) \/ "drupal" \in Range(tech)) /\ events_subpage
    THEN "T1"
    ELSE IF events_subpage \/ candidate_urls # <<>> THEN "T1"
    ELSE "SKIP"

\* TierClassification with >= 0 for > 0 in the T0 rule
TierClassificationNonNegative(jsonld_event_count, tech, events_subpage, candidate_urls) ==
    IF jsonld_event_count >= 0 THEN "T0" ELSE "SKIP"

\* the tier classification at the end of probe_url
TierClassification(jsonld_event_count, tech, events_subpage, candidate_urls) ==
    IF jsonld_event_count > 0 THEN "T0"
    ELSE IF ("wordpress" \in Range(tech) \/ "drupal" \in Range(tech)) /\ events_subpage
    THEN "T1"
    ELSE IF \E t \in {"squarespace", "wix", "nextjs", "elementor", "webflow"} :
                t \in Range(tech)
    THEN "T2"
    ELSE IF events_subpage \/ candidate_urls # <<>> THEN "T1"
    ELSE "SKIP"

\* DefaultResult with T1 for the tier a probe starts from
DefaultResultStartsAtT1(entry) ==
    [name |-> entry.name, domain |-> entry.domain, final_url |-> entry.url,
     status |-> 0, tech_stack |-> "unknown", jsonld_event_count |-> 0,
     events_subpage |-> FALSE, tribe_api |-> FALSE, tier_guess |-> "T1",
     candidate_urls |-> <<>>, error |-> None]

\* the result dict probe_url starts from, and the one main() builds for a
\* future that raised
DefaultResult(entry) ==
    [name |-> entry.name, domain |-> entry.domain, final_url |-> entry.url,
     status |-> 0, tech_stack |-> "unknown", jsonld_event_count |-> 0,
     events_subpage |-> FALSE, tribe_api |-> FALSE, tier_guess |-> "SKIP",
     candidate_urls |-> <<>>, error |-> None]

\* the except clauses of probe_url: the error recorded for an exception
ProbeError(kind, text) ==
    IF kind = "Timeout" THEN Some("timeout")
    ELSE IF kind = "TooManyRedirects" THEN Some("too_many_redirects")
    ELSE Some(Truncate(text, MAX_ERROR_LEN))

\* ProbeSubpages that checks /calendar/ whatever /events/ answered
ProbeSubpagesBothChecks(site, resp_url, r, tech, requests) ==
    LET NotAsked == [found |-> FALSE, requests |-> <<>>]
        Calendar(ev) == check_subpage(site.calendar, resp_url, "/calendar/")
        wants_tribe == "wordpress" \in Range(tech) \/ "tribe-events" \in Range(tech)
        Classified(ev, cal, tribe) ==
            LET events_subpage == ev.found \/ cal.found
            IN [raised |-> FALSE, text |-> "",
                requests |-> requests \o ev.requests \o cal.requests \o tribe.requests,
                result |-> [r EXCEPT !.events_subpage = events_subpage,
                                     !.tribe_api = tribe.found,
                                     !.tier_guess =
                                         TierClassification(r.jsonld_event_count, tech,
                                                            events_subpage, r.candidate_urls)]]
    IN The({The({Classified(ev, cal, tribe) :
                   cal \in {Calendar(ev)},
                   tribe \in {IF wants_tribe
                              THEN check_subpage(site.tribe, resp_url,
                                                 "/wp-json/tribe/events/v1/events")
                              ELSE NotAsked}}) :
              ev \in {check_subpage(site.events, resp_url, "/events/")}})

\* ProbeSubpages that checks the tribe endpoint whatever the fingerprint
ProbeSubpagesAlwaysTribe(site, resp_url, r, tech, requests) ==
    LET NotAsked == [found |-> FALSE, requests |-> <<>>]
        Calendar(ev) == IF ev.found THEN NotAsked
                        ELSE check_subpage(site.calendar, resp_url, "/calendar/")
        wants_tribe == TRUE
        Classified(ev, cal, tribe) ==
            LET events_subpage == ev.found \/ cal.found
            IN [raised |-> FALSE, text |-> "",
                requests |-> requests \o ev.requests \o cal.requests \o tribe.requests,
                result |-> [r EXCEPT !.events_subpage = events_subpage,
                                     !.tribe_api = tribe.found,
                                     !.tier_guess =
                                         TierClassification(r.jsonld_event_count, tech,
                                                            events_subpage, r.candidate_urls)]]
    IN The({The({Classified(ev, cal, tribe) :
                   cal \in {Calendar(ev)},
                   tribe \in {IF wants_tribe
                              THEN check_subpage(site.tribe, resp_url,
                                                 "/wp-json/tribe/events/v1/events")
                              ELSE NotAsked}}) :
              ev \in {check_subpage(site.events, resp_url, "/events/")}})

\* probe_url from the subpage checks on: resp is the main response, r the
\* result so far, tech the fingerprint
ProbeSubpages(site, resp_url, r, tech, requests) ==
    LET NotAsked == [found |-> FALSE, requests |-> <<>>]
        Calendar(ev) == IF ev.found THEN NotAsked
                        ELSE check_subpage(site.calendar, resp_url, "/calendar/")
        wants_tribe == "wordpress" \in Range(tech) \/ "tribe-events" \in Range(tech)
        Classified(ev, cal, tribe) ==
            LET events_subpage == ev.found \/ cal.found
            IN [raised |-> FALSE, text |-> "",
                requests |-> requests \o ev.requests \o cal.requests \o tribe.requests,
                result |-> [r EXCEPT !.events_subpage = events_subpage,
                                     !.tribe_api = tribe.found,
                                     !.tier_guess =
                                         TierClassification(r.jsonld_event_count, tech,
                                                            events_subpage, r.candidate_urls)]]
    IN The({The({Classified(ev, cal, tribe) :
                   cal \in {Calendar(ev)},
                   tribe \in {IF wants_tribe
                              THEN check_subpage(site.tribe, resp_url,
                                                 "/wp-json/tribe/events/v1/events")
                              ELSE NotAsked}}) :
              ev \in {check_subpage(site.events, resp_url, "/events/")}})

\* probe_url from the body of a response with status < 400 on
ProbeBody(site, resp_url, r0, requests) ==
    LET Rest(tech, counted, links) ==
            LET r1 == [r0 EXCEPT !.tech_stack = Join(tech, ",")]
                r2 == [r1 EXCEPT !.jsonld_event_count = counted.count]
                r3 == [r2 EXCEPT !.candidate_urls = links.urls]
            IN IF counted.raised
               THEN [raised |-> FALSE, text |-> "", requests |-> requests,
                     result |-> [r1 EXCEPT
                                    !.error = ProbeError("Exception", AttributeErrorText)]]
               ELSE IF links.raised
               THEN [raised |-> FALSE, text |-> "", requests |-> requests,
                     result |-> [r2 EXCEPT
                                    !.error = ProbeError("Exception", ValueErrorText)]]
               ELSE ProbeSubpages(site, resp_url, r3, tech, requests)
    IN The({Rest(tech, counted, links) :
              tech \in {detect_tech(site.page.html)},
              counted \in {count_jsonld_events(site.page.scripts)},
              links \in {find_candidate_event_links(site.page.anchors, resp_url)}})

\* probe_url without the early return for a status >= 400
probe_url_without_early_return(entry, site) ==
    LET result == DefaultResult(entry)
        requests == <<"GET " \o entry.url>>
        resp_url == IF site.main.url = "" THEN entry.url ELSE site.main.url
        r0 == [result EXCEPT !.final_url = resp_url, !.status = site.main.status]
    IN IF site.session_error # ""
       THEN [raised |-> TRUE, text |-> site.session_error, requests |-> <<>>,
             result |-> result]
       ELSE IF site.main.exc # ""
       THEN [raised |-> FALSE, text |-> "", requests |-> requests,
             result |-> [result EXCEPT !.error = ProbeError(site.main.exc, site.main.text)]]
       ELSE ProbeBody(site, resp_url,
                      IF site.main.status >= 400
                      THEN [r0 EXCEPT !.error = Some("HTTP " \o Str(site.main.status))]
                      ELSE r0,
                      requests)

\* probe_url(entry) against a site: the result returned, or the exception
\* that leaves the function (raised, with its text), and the requests sent
probe_url(entry, site) ==
    LET result == DefaultResult(entry)
        requests == <<"GET " \o entry.url>>
        resp_url == IF site.main.url = "" THEN entry.url ELSE site.main.url
        r0 == [result EXCEPT !.final_url = resp_url, !.status = site.main.status]
    IN IF site.session_error # ""
       THEN [raised |-> TRUE, text |-> site.session_error, requests |-> <<>>,
             result |-> result]
       ELSE IF site.main.exc # ""
       THEN [raised |-> FALSE, text |-> "", requests |-> requests,
             result |-> [result EXCEPT !.error = ProbeError(site.main.exc, site.main.text)]]
       ELSE IF site.main.status >= 400
       THEN [raised |-> FALSE, text |-> "", requests |-> requests,
             result |-> [r0 EXCEPT !.error = Some("HTTP " \o Str(site.main.status))]]
       ELSE ProbeBody(site, resp_url, r0, requests)

(***************************************************************************)
(* Step 3: the report.                                                     *)
(***************************************************************************)
TSV_HEADER ==
    "domain\tfinal_url\tstatus\ttech_stack\t"
    \o "jsonld_event_count\tevents_subpage\ttribe_api\ttier_guess\tcandidate_urls"

result_to_tsv_row(r) ==
    The({Join(fields, "\t") :
           fields \in {<< r.domain, r.final_url, Str(r.status), r.tech_stack,
                          Str(r.jsonld_event_count),
                          IF r.events_subpage THEN "yes" ELSE "no",
                          IF r.tribe_api THEN "yes" ELSE "no",
                          r.tier_guess,
                          Join(r.candidate_urls, "|") >>}})

\* TsvText that leaves out the results with an error
TsvTextSkipsErrors(rs) ==
    LET Ok(r) == r.error = None
    IN The({Join(tsv_lines, "\n") \o "\n" :
              tsv_lines \in {<<TSV_HEADER>> \o [i \in 1..Len(kept) |->
                                                  result_to_tsv_row(kept[i])] :
                                kept \in {SelectSeq(rs, Ok)}}})

\* the text main() writes to OUTPUT_FILE
TsvText(rs) ==
    The({Join(tsv_lines, "\n") \o "\n" :
           tsv_lines \in {<<TSV_HEADER>> \o [i \in 1..Len(rs) |-> result_to_tsv_row(rs[i])]}})

\* r.get("error") as a condition: set and not the empty string
HasError(r) == r.error # None /\ r.error[1] # ""

\* print_summary(results): the tier lists and the error list it prints
print_summary(rs) ==
    LET InTier(t) == LET Is(r) == r.tier_guess = t IN SelectSeq(rs, Is)
        IsError(r) == HasError(r) /\ r.status = 0
    IN [total |-> Len(rs),
        tiers |-> [t \in {"T0", "T1", "T2", "SKIP"} |-> InTier(t)],
        errors |-> SelectSeq(rs, IsError)]

(***************************************************************************)
(* The environment of a run: the command line, the config directory, the   *)
(* input file, the directory feed and what the probed sites answer.        *)
(***************************************************************************)
SeqsUpTo(S, n) == UNION {[1..k -> S] : k \in 0..n}

ArtsTags == <<"topic/art-form/music">>

OtherTags == <<"topic/sports">>

RawA == [name |-> "A", link |-> "https://www.a.ca/", tags |-> ArtsTags]

RawB == [name |-> "B", link |-> "https://b.ca/events", tags |-> ArtsTags]

RawX == [name |-> "X", link |-> "https://x.com/venue", tags |-> ArtsTags]

RawNoLink == [name |-> "N", link |-> "", tags |-> ArtsTags]

RawSports == [name |-> "S", link |-> "https://web.ca/", tags |-> OtherTags]

RawEntries == {RawA, RawB, RawX, RawSports}

\* directory entries that fail two checks at once, a link that is no URL, and
\* a denylisted host that begins with "w"
RawNoLinkSports == [name |-> "NS", link |-> "", tags |-> OtherTags]

RawRelative == [name |-> "R", link |-> "/venues/hall", tags |-> ArtsTags]

RawFacebookSports ==
    [name |-> "FS", link |-> "https://www.Facebook.com/venue", tags |-> OtherTags]

RawASports == [name |-> "AS", link |-> "https://www.a.ca/club", tags |-> OtherTags]

RawWiki ==
    [name |-> "W", link |-> "https://wikipedia.org/wiki/Massey_Hall",
     tags |-> <<"topic/sports", "instance-of/place/event-venue/hall">>]

FilterEntries ==
    {RawA, RawB, RawX, RawNoLinkSports, RawRelative, RawFacebookSports, RawASports, RawWiki}

InputLines == {"https://www.a.ca/", "https://a.ca/", ""}

\* lines of an input file: a configured site, one written with blanks around
\* it, another site, a line of blanks, an empty line
PaddedLines == {"https://www.a.ca/", "  https://www.a.ca/ ", "https://b.ca/x", "   ", ""}

NoDir == [exists |-> FALSE, files |-> {}]

DirA ==
    [exists |-> TRUE,
     files |-> {[name |-> "a.yaml", readable |-> TRUE,
                 lines |-> <<"name: A", "  url: \"https://www.a.ca/events\"">>],
                [name |-> "_template.yaml", readable |-> TRUE,
                 lines |-> <<"url: https://b.ca/">>]}]

DirUnreadable ==
    [exists |-> TRUE,
     files |-> {[name |-> "a.yaml", readable |-> FALSE, lines |-> <<>>]}]

NoFile == [exists |-> FALSE, lines |-> <<>>]

File(lines) == [exists |-> TRUE, lines |-> lines]

\* the directory request raises (no connection, a timeout)
FailedFeed == [raises |-> TRUE, status |-> 0, decodes |-> FALSE, communities |-> <<>>]

\* the directory answers 200 with JSON that holds the communities
Feed(communities) ==
    [raises |-> FALSE, status |-> 200, decodes |-> TRUE, communities |-> communities]

\* the ways the directory request fails: it raises; a 503 whose body is the
\* directory all the same; a 200 whose body is not JSON
FailedFeeds ==
    { FailedFeed,
      [Feed(<<RawA, RawB>>) EXCEPT !.status = 503],
      [Feed(<<>>) EXCEPT !.decodes = FALSE] }

\* responses of one URL to HEAD and to GET
Answer(status) == [raises |-> FALSE, status |-> status]

Raises == [raises |-> TRUE, status |-> 0]

SubpageFound == [head |-> Answer(200), get |-> Answer(200)]

SubpageMissing == [head |-> Answer(404), get |-> Answer(404)]

\* found, missing, found by the GET fallback, a HEAD that raises
FewSubpageBehaviours ==
    { SubpageFound, SubpageMissing,
      [head |-> Answer(405), get |-> Answer(200)],
      [head |-> Raises, get |-> Answer(200)] }

SubpageBehaviours ==
    FewSubpageBehaviours \cup
    { [head |-> Answer(405), get |-> Answer(404)],
      [head |-> Answer(405), get |-> Raises] }

Str1(s) == [kind |-> "str", strs |-> <<[is_str |-> TRUE, s |-> s]>>]

Item(type) == [is_dict |-> TRUE, type |-> type]

EventBlock == [parses |-> TRUE, items |-> <<Item(Str1("Event"))>>]

MalformedBlock == [parses |-> FALSE, items |-> <<>>]

ListBlock ==
    [parses |-> TRUE,
     items |-> << Item(Str1("Organization")),
                  [is_dict |-> FALSE, type |-> Str1("")],
                  Item([kind |-> "list",
                        strs |-> <<[is_str |-> TRUE, s |-> "Thing"],
                                   [is_str |-> TRUE, s |-> "MusicEvent"]>>]),
                  Item([kind |-> "other", strs |-> <<>>]),
                  Item(Str1("theaterevent")) >>]

BadTypeBlock ==
    [parses |-> TRUE,
     items |-> <<Item([kind |-> "list", strs |-> <<[is_str |-> FALSE, s |-> ""]>>])>>]

ScriptLists ==
    { <<>>, <<EventBlock>>, <<MalformedBlock, ListBlock>>, <<BadTypeBlock>>,
      <<EventBlock, BadTypeBlock>> }

AnchorLists ==
    { <<>>,
      << [href |-> " /events ", text |-> "Events"], [href |-> "#top", text |-> "Shows"],
         [href |-> "mailto:events@a.ca", text |-> "mail"],
         [href |-> "/events", text |-> "Calendar"], [href |-> "/about", text |-> "About"],
         [href |-> "tickets", text |-> " Season "] >>,
      << [href |-> "http://[events", text |-> "broken"] >> }

Bodies ==
    { "<p>hello</p>", "/wp-content/themes", "Drupal 10", "static1.squarespace.com",
      "wixstatic", "/_next/static/", "wp-includes elementor", "the-events-calendar",
      "sites/default/files webflow.io" }

Pages == [html : Bodies, scripts : ScriptLists, anchors : AnchorLists]

EmptyPage == [html |-> "", scripts |-> <<>>, anchors |-> <<>>]

ConnectionErrorText ==
    "HTTPSConnectionPool(host='a.ca', port=443): Max retries exceeded with url: / "
    \o "(Caused by NameResolutionError: Failed to resolve 'a.ca')"

MainAnswer(status, url) == [exc |-> "", text |-> "", status |-> status, url |-> url]

MainRaises(exc, text) == [exc |-> exc, text |-> text, status |-> 0, url |-> ""]

\* a site whose main fetch does not deliver a page
DeadSite(main) ==
    [session_error |-> "", main |-> main, page |-> EmptyPage,
     events |-> SubpageMissing, calendar |-> SubpageMissing, tribe |-> SubpageMissing]

TimeoutSite == DeadSite(MainRaises("Timeout", "Read timed out."))

\* requests.Session() or session.headers.update() raising before the try
BrokenSessionSite ==
    [DeadSite(MainRaises("Timeout", "")) EXCEPT !.session_error = "can't start new thread"]

\* the same with an exception text of more than MAX_ERROR_LEN characters
ExhaustedSessionSite ==
    [BrokenSessionSite EXCEPT !.session_error =
        "OSError: [Errno 24] Too many open files: "
        \o "'/usr/lib/python3/dist-packages/certifi/cacert.pem' while creating the session"]

EventSite ==
    [session_error |-> "", main |-> MainAnswer(200, ""),
     page |-> [html |-> "/wp-content/themes", scripts |-> <<EventBlock>>, anchors |-> <<>>],
     events |-> SubpageFound, calendar |-> SubpageMissing, tribe |-> SubpageMissing]

\* a 404 whose error page is served by WordPress
NotFoundSite ==
    [DeadSite(MainAnswer(404, "")) EXCEPT !.page.html = "/wp-content/themes/404"]

DeadSites ==
    { TimeoutSite, NotFoundSite,
      DeadSite(MainRaises("TooManyRedirects", "Exceeded 30 redirects.")),
      DeadSite(MainRaises("ConnectionError", ConnectionErrorText)),
      DeadSite(MainAnswer(404, "")), DeadSite(MainAnswer(500, "https://a.ca/error")),
      BrokenSessionSite }

LiveSites ==
    [session_error : {""},
     main : {MainAnswer(200, ""), MainAnswer(203, "https://www.a.ca/home/")},
     page : Pages,
     events : SubpageBehaviours, calendar : FewSubpageBehaviours,
     tribe : FewSubpageBehaviours]

\* the k-th link of an events listing
EventAnchor(k) == [href |-> "/events/" \o Str(k), text |-> "Details"]

\* n listing links of which every period-th repeats
AnchorRun(n, period) == [k \in 1..n |-> EventAnchor(k % period)]

\* anchors that do not qualify: a fragment, a mailto, a blank href, no keyword
NoiseAnchors ==
    << [href |-> "#events", text |-> "Events"],
       [href |-> "mailto:events@a.ca", text |-> "Events desk"],
       [href |-> "  ", text |-> "Calendar"],
       [href |-> "/about", text |-> "About"] >>

MaxAnchors == 11

\* a listing link whose query holds a vertical bar
WeekendAnchor == [href |-> "/events?day=sat|sun", text |-> "Weekend"]

\* pages of up to MaxAnchors listing links, all distinct or repeating, and a
\* page with the weekend link
LinkAnchorLists ==
    {NoiseAnchors \o AnchorRun(n, period) : n \in 0..MaxAnchors, period \in {3, MaxAnchors + 1}}
        \cup {<<EventAnchor(1), WeekendAnchor>>}

\* sites that serve such pages, directly, after a redirect, as the body of a
\* 300 Multiple Choices or of a 404, with JSON-LD that parses or that makes
\* the count raise
LinkSites ==
    [session_error : {""},
     main : {MainAnswer(200, ""), MainAnswer(203, "https://www.a.ca/home/"),
             MainAnswer(300, ""), MainAnswer(404, "")},
     page : [html : {"<p>hello</p>"}, scripts : {<<>>, <<BadTypeBlock>>},
             anchors : LinkAnchorLists],
     events : {SubpageMissing}, calendar : {SubpageMissing}, tribe : {SubpageMissing}]

\* the behaviours a probed site can show in a world: every behaviour; three
\* (a page with events, a timeout, a probe that raises); pages of many
\* links; a timeout only
SiteBehaviours(world) ==
    IF world = "any" THEN DeadSites \cup LiveSites
    ELSE IF world = "few" THEN {EventSite, TimeoutSite, BrokenSessionSite}
    ELSE IF world = "links" THEN LinkSites
    ELSE IF world = "raising" THEN {EventSite, BrokenSessionSite, ExhaustedSessionSite}
    ELSE {TimeoutSite}

MaxLines == 2

MaxRaw == 2

MaxPool == 11

Limits == {None, Some(0), Some(1)}

(***************************************************************************)
(* The state of a run.                                                     *)
(***************************************************************************)
VARIABLES
    args,                \* the parsed command line: limit and input, None when absent
    config_dir,          \* CONFIGS_DIR on disk
    input_file,          \* the file args.input names
    feed,                \* what the directory feed answers
    world,               \* names the behaviours a probed site can show
    pc,                  \* where main() is
    configured_domains,  \* the Domain Registry
    discovered,          \* what discover_t0ronto_urls computed: urls and skip counters
    feed_requests,       \* GET requests sent to T0RONTO_JSON
    entries,             \* the candidate entries
    futures,             \* future_to_entry: one future per submitted entry
    results,             \* the collected results
    completed,           \* the progress counter
    progress,            \* the progress lines printed
    output,              \* the texts written to OUTPUT_FILE, one per write
    summary,             \* what print_summary printed, None before
    exit_status          \* the exit status of the process, None while it runs

environment == <<args, config_dir, input_file, feed, world>>

vars ==
    <<args, config_dir, input_file, feed, world, pc, configured_domains, discovered,
      feed_requests, entries, futures, results, completed, progress, output, summary,
      exit_status>>

\* the state at process start, for a run drawn from the given environments
InitEnv(limits, dirs, files, feeds, worlds) ==
    /\ args \in [limit : limits, input : {None, Some("urls.txt")}]
    /\ config_dir \in dirs
    /\ input_file \in IF args.input = None THEN {NoFile} ELSE files
    /\ feed \in IF args.input = None THEN feeds ELSE {FailedFeed}
    /\ world \in worlds
    /\ pc = "start"
    /\ configured_domains = {}
    /\ discovered = NoCounts
    /\ feed_requests = 0
    /\ entries = <<>>
    /\ futures = <<>>
    /\ results = <<>>
    /\ completed = 0
    /\ progress = <<>>
    /\ output = <<>>
    /\ summary = None
    /\ exit_status = None

\* runs of up to MaxRaw directory entries or MaxLines input lines, against
\* sites of three behaviours
Init ==
    InitEnv(Limits, {NoDir, DirA, DirUnreadable},
            {NoFile} \cup {File(l) : l \in SeqsUpTo(InputLines, MaxLines)},
            FailedFeeds \cup {Feed(c) : c \in SeqsUpTo(RawEntries, MaxRaw)},
            {"few"})

\* runs of at most one entry, against every site behaviour
InitProbe ==
    InitEnv({None}, {NoDir},
            {File(<<>>), File(<<"https://www.a.ca/home/">>)},
            {Feed(<<RawB>>)},
            {"any"})

\* runs of MaxPool entries (or none) that all time out
InitPool ==
    InitEnv({None}, {NoDir},
            {File([i \in 1..n |-> "https://www.a.ca/"]) : n \in {0, MaxPool}},
            {Feed(<<RawB>>)},
            {"timeout"})

\* runs over feeds of up to MaxRaw entries of every kind the filter tells
\* apart, with and without a registry, against sites that time out
InitFilter ==
    InitEnv({None}, {NoDir, DirA}, {File(<<>>)},
            {Feed(c) : c \in SeqsUpTo(FilterEntries, MaxRaw)},
            {"timeout"})

\* runs over input files of every kind of line, or over the feed, with and
\* without a registry, against sites that time out
InitInput ==
    InitEnv({None}, {NoDir, DirA},
            {File(l) : l \in SeqsUpTo(PaddedLines, MaxLines)},
            FailedFeeds \cup {Feed(<<RawB>>)},
            {"timeout"})

\* runs of up to MaxLines entries, against a site with events and sites for
\* which probe_url raises
InitRaise ==
    InitEnv({None}, {NoDir},
            {File(l) : l \in SeqsUpTo({"https://www.a.ca/", "https://b.ca/x"}, MaxLines)},
            {Feed(<<RawB>>)},
            {"raising"})

\* runs of at most one entry, against sites whose pages hold many links
InitLinks ==
    InitEnv({None}, {NoDir},
            {File(<<>>), File(<<"https://www.a.ca/home/">>)},
            {Feed(<<RawB>>)},
            {"links"})

(***************************************************************************)
(* main().                                                                 *)
(***************************************************************************)
\* an exception nothing catches: the traceback, exit status 1
Crash ==
    /\ pc' = "exit"
    /\ exit_status' = Some(1)

\* configured_domains = load_configured_domains()
LoadConfiguredDomains ==
    /\ pc = "start"
    /\ LET r == load_configured_domains(config_dir)
       IN IF r.raised
          THEN Crash /\ UNCHANGED configured_domains
          ELSE /\ configured_domains' = r.domains
               /\ pc' = "assemble"
               /\ UNCHANGED exit_status
    /\ UNCHANGED <<environment, discovered, feed_requests, entries, futures, results,
                   completed, progress, output, summary>>

\* the if args.input branch: the entries are the non-blank lines of the file
LoadInput ==
    /\ pc = "assemble"
    /\ args.input # None
    /\ IF ~input_file.exists
       THEN Crash /\ UNCHANGED entries
       ELSE /\ entries' = InputEntries(input_file.lines)
            /\ pc' = "limit"
            /\ UNCHANGED exit_status
    /\ UNCHANGED <<environment, configured_domains, discovered, feed_requests, futures,
                   results, completed, progress, output, summary>>

\* the else branch: entries = discover_t0ronto_urls(configured_domains)
Discover ==
    /\ pc = "assemble"
    /\ args.input = None
    /\ feed_requests' = feed_requests + 1
    /\ LET found == discover_t0ronto_urls(configured_domains, feed)
       IN discovered' = found /\ entries' = found.urls
    /\ pc' = "limit"
    /\ UNCHANGED <<environment, configured_domains, futures, results, completed, progress,
                   output, summary, exit_status>>

\* xs[:n]
Slice(xs, n) ==
    IF n >= 0 THEN SubSeq(xs, 1, Min(n, Len(xs)))
    ELSE SubSeq(xs, 1, IF Len(xs) + n > 0 THEN Len(xs) + n ELSE 0)

\* if args.limit: entries = entries[: args.limit]
ApplyLimit ==
    /\ pc = "limit"
    /\ entries' = IF args.limit # None /\ args.limit[1] # 0
                  THEN Slice(entries, args.limit[1])
                  ELSE entries
    /\ pc' = "check"
    /\ UNCHANGED <<environment, configured_domains, discovered, feed_requests, futures,
                   results, completed, progress, output, summary, exit_status>>

\* main() without the check for an empty candidate list
NothingToProbeNever(es) == FALSE

\* if not entries: print("No URLs to probe. Exiting."); return
NothingToProbe(es) == es = <<>>

ExitEmpty ==
    /\ pc = "check"
    /\ NothingToProbe(entries)
    /\ pc' = "exit"
    /\ exit_status' = Some(0)
    /\ UNCHANGED <<environment, configured_domains, discovered, feed_requests, entries,
                   futures, results, completed, progress, output, summary>>

\* results = []; completed = 0; the executor is created
BeginProbing ==
    /\ pc = "check"
    /\ ~NothingToProbe(entries)
    /\ results' = <<>>
    /\ completed' = 0
    /\ pc' = IF entries = <<>> THEN "collect" ELSE "submit"
    /\ UNCHANGED <<environment, configured_domains, discovered, feed_requests, entries,
                   futures, progress, output, summary, exit_status>>

\* a future: its entry, its state, what probe_url returned or raised, whether
\* as_completed has yielded it, and (for the record) the page the site served
\* and the status of its answer to each request
NewFuture(entry) ==
    [entry |-> entry, state |-> "PENDING", outcome |-> <<>>, yielded |-> FALSE,
     page |-> EmptyPage, responses |-> <<>>]

\* one executor.submit(probe_url, e) of the dict comprehension
Submit ==
    /\ pc = "submit"
    /\ futures' = Append(futures, NewFuture(entries[Len(futures) + 1]))
    /\ pc' = IF Len(futures) + 1 = Len(entries) THEN "collect" ELSE "submit"
    /\ UNCHANGED <<environment, configured_domains, discovered, feed_requests, entries,
                   results, completed, progress, output, summary, exit_status>>

Running == {i \in 1..Len(futures) : futures[i].state = "RUNNING"}

\* a pool that admits one probe more than its width
WorkerFreeOffByOne(running) == Cardinality(running) <= MAX_WORKERS

\* ThreadPoolExecutor(max_workers=10): a worker thread is free to take a work item
WorkerFree(running) == Cardinality(running) < MAX_WORKERS

\* a worker takes the oldest queued work item and calls probe_url
StartProbe(i) ==
    /\ futures[i].state = "PENDING"
    /\ \A j \in 1..(i - 1) : futures[j].state # "PENDING"
    /\ WorkerFree(Running)
    /\ futures' = [futures EXCEPT ![i].state = "RUNNING"]
    /\ UNCHANGED <<environment, pc, configured_domains, discovered, feed_requests, entries,
                   results, completed, progress, output, summary, exit_status>>

EndsWith(s, p) == Len(s) >= Len(p) /\ SubSeq(s, Len(s) - Len(p) + 1, Len(s)) = p

\* the URL a request line names
Target(request) == SubSeq(request, IndexOf(request, " ") + 1, Len(request))

TRIBE_PATH == "/wp-json/tribe/events/v1/events"

\* what the site answered to each request of a probe: the status, 0 when the
\* request raised
Responses(site, requests) ==
    LET Status(answer) == IF answer.raises THEN 0 ELSE answer.status
        Sub(url) == IF EndsWith(url, "/events/") THEN site.events
                    ELSE IF EndsWith(url, "/calendar/") THEN site.calendar
                    ELSE site.tribe
        Answered(request) ==
            IF StartsWith(request, "HEAD ") THEN Status(Sub(Target(request)).head)
            ELSE Status(Sub(Target(request)).get)
    IN [k \in 1..Len(requests) |->
          IF k = 1 THEN (IF site.main.exc # "" THEN 0 ELSE site.main.status)
          ELSE Answered(requests[k])]

\* probe_url returns or raises on the worker; the future is finished
FinishProbe(i) ==
    /\ futures[i].state = "RUNNING"
    /\ \E site \in SiteBehaviours(world) :
          \E o \in {probe_url(futures[i].entry, site)} :
             futures' = [futures EXCEPT ![i].state = "FINISHED",
                                        ![i].outcome = <<o>>,
                                        ![i].page = site.page,
                                        ![i].responses = Responses(site, o.requests)]
    /\ UNCHANGED <<environment, pc, configured_domains, discovered, feed_requests, entries,
                   results, completed, progress, output, summary, exit_status>>

\* CollectedResult that records the whole exception text
CollectedResultUntruncated(future) ==
    LET o == future.outcome[1]
    IN IF o.raised
       THEN [DefaultResult(future.entry) EXCEPT !.error = Some(o.text)]
       ELSE o.result

\* future.result(), or the result the except clause builds from the entry
CollectedResult(future) ==
    LET o == future.outcome[1]
    IN IF o.raised
       THEN [DefaultResult(future.entry) EXCEPT
                !.error = Some(Truncate(o.text, MAX_ERROR_LEN))]
       ELSE o.result

\* ProgressLine that numbers from 0
ProgressLineFromZero(n, total, result) ==
    [completed |-> n - 1, total |-> total, tier |-> result.tier_guess,
     domain |-> result.domain,
     err |-> IF HasError(result) THEN " ERROR: " \o result.error[1] ELSE ""]

\* the line main() prints for a collected result
ProgressLine(n, total, result) ==
    [completed |-> n, total |-> total, tier |-> result.tier_guess,
     domain |-> result.domain,
     err |-> IF HasError(result) THEN " ERROR: " \o result.error[1] ELSE ""]

\* an as_completed that can yield a finished future again
MarkYieldedForgets(fs, i) == fs

\* what as_completed does with a future it yields: it is not yielded again
MarkYielded(fs, i) == [fs EXCEPT ![i].yielded = TRUE]

\* one pass of the as_completed loop, for a finished future not yet yielded
Collect(i) ==
    /\ pc = "collect"
    /\ futures[i].state = "FINISHED"
    /\ ~futures[i].yielded
    /\ futures' = MarkYielded(futures, i)
    /\ completed' = completed + 1
    /\ LET result == CollectedResult(futures[i])
       IN /\ results' = Append(results, result)
          /\ progress' = Append(progress,
                                ProgressLine(completed + 1, Len(entries), result))
    /\ UNCHANGED <<environment, pc, configured_domains, discovered, feed_requests, entries,
                   output, summary, exit_status>>

\* a loop that ends as soon as one future has been yielded
AllCollectedAfterFirst(fs) == \E i \in 1..Len(fs) : fs[i].yielded

\* as_completed is exhausted when every future has been yielded
AllCollected(fs) == \A i \in 1..Len(fs) : fs[i].yielded

\* the loop and the with block end; OUTPUT_FILE.write_text(...)
WriteTsv ==
    /\ pc = "collect"
    /\ AllCollected(futures)
    /\ output' = Append(output, TsvText(results))
    /\ pc' = "summary"
    /\ UNCHANGED <<environment, configured_domains, discovered, feed_requests, entries,
                   futures, results, completed, progress, summary, exit_status>>

\* print_summary(results) and the normal end of main()
PrintSummary ==
    /\ pc = "summary"
    /\ summary' = Some(print_summary(results))
    /\ pc' = "exit"
    /\ exit_status' = Some(0)
    /\ UNCHANGED <<environment, configured_domains, discovered, feed_requests, entries,
                   futures, results, completed, progress, output>>

Next ==
    \/ LoadConfiguredDomains
    \/ LoadInput
    \/ Discover
    \/ ApplyLimit
    \/ ExitEmpty
    \/ BeginProbing
    \/ Submit
    \/ \E i \in 1..Len(futures) : StartProbe(i)
    \/ \E i \in 1..Len(futures) : FinishProbe(i)
    \/ \E i \in 1..Len(futures) : Collect(i)
    \/ WriteTsv
    \/ PrintSummary

Spec == Init /\ [][Next]_vars

SpecProbe == InitProbe /\ [][Next]_vars

SpecPool == InitPool /\ [][Next]_vars

SpecFilter == InitFilter /\ [][Next]_vars

SpecLinks == InitLinks /\ [][Next]_vars

SpecInput == InitInput /\ [][Next]_vars

SpecRaise == InitRaise /\ [][Next]_vars

\* the main thread and the worker threads
MainThread ==
    \/ LoadConfiguredDomains
    \/ LoadInput
    \/ Discover
    \/ ApplyLimit
    \/ ExitEmpty
    \/ BeginProbing
    \/ Submit
    \/ \E i \in 1..Len(futures) : Collect(i)
    \/ WriteTsv
    \/ PrintSummary

Workers == \E i \in 1..Len(futures) : StartProbe(i) \/ FinishProbe(i)

\* every thread that can run is scheduled, and every request returns or times out
FairSpec == Init /\ [][Next]_vars /\ WF_vars(MainThread) /\ WF_vars(Workers)

(***************************************************************************)
(* Properties.                                                             *)
(***************************************************************************)
Tiers == {"T0", "T1", "T2", "SKIP"}

\* the names of the comma-joined tech_stack of a result
TechNames(r) == Range(Split(r.tech_stack, ","))

\* the probes that have returned or raised
Finished == {i \in 1..Len(futures) : futures[i].state = "FINISHED"}

\* a result whose error records an exception, not an HTTP status
RecordsException(r) == r.error # None /\ ~StartsWith(r.error[1], "HTTP ")

\* C1: a probe whose main fetch returned a status below 400 and in which no
\* exception occurred (its result carries no error) has the tier of the first
\* matching rule, read off the result's own fields: T0 if jsonld_event_count > 0;
\* else T1 if wordpress or drupal and events_subpage; else T2 if squarespace,
\* wix, nextjs, elementor or webflow; else T1 if events_subpage or
\* candidate_urls is non-empty; else SKIP.  tribe_api plays no part.
C1_TierIsFirstMatchingRule ==
    \A i \in 1..Len(results) :
        LET r == results[i]
        IN (r.error = None /\ r.status < 400) =>
              r.tier_guess =
                 IF r.jsonld_event_count > 0 THEN "T0"
                 ELSE IF TechNames(r) \cap {"wordpress", "drupal"} # {} /\ r.events_subpage
                 THEN "T1"
                 ELSE IF TechNames(r) \cap
                            {"squarespace", "wix", "nextjs", "elementor", "webflow"} # {}
                 THEN "T2"
                 ELSE IF r.events_subpage \/ r.candidate_urls # <<>> THEN "T1"
                 ELSE "SKIP"

\* a WordPress page built with Elementor whose /events/ exists is T1, whatever
\* the tribe API answered
C1_Witness ==
    \E i \in 1..Len(results) :
        /\ results[i].error = None
        /\ {"wordpress", "elementor"} \subseteq TechNames(results[i])
        /\ results[i].events_subpage
        /\ results[i].tribe_api
        /\ results[i].jsonld_event_count = 0
        /\ results[i].tier_guess = "T1"

\* C2: every collected result with tier T0 has jsonld_event_count > 0, whether
\* the probe succeeded, met an HTTP error or an exception
C2_T0ImpliesEvents ==
    \A i \in 1..Len(results) :
        results[i].tier_guess = "T0" => results[i].jsonld_event_count > 0

C2_Witness ==
    \E i \in 1..Len(results) :
        results[i].tier_guess = "T0" /\ results[i].jsonld_event_count = 2

\* C3: every collected result with jsonld_event_count > 0 has tier T0, also
\* when a later step of the probe failed
C3_EventsImplyT0 ==
    \A i \in 1..Len(results) :
        results[i].jsonld_event_count > 0 => results[i].tier_guess = "T0"

\* C4: every entry is submitted once, in order; the results collected so far
\* are, name and domain, exactly those of the futures yielded so far, one each;
\* every result has a tier; and when the collection is over there is one
\* result per entry
C4_OneResultPerEntry ==
    LET Key(e) == <<e.name, e.domain>>
        yielded == {i \in 1..Len(futures) : futures[i].yielded}
        keys == {Key(entries[i]) : i \in 1..Len(entries)}
                \cup {Key(results[i]) : i \in 1..Len(results)}
    IN /\ Len(futures) <= Len(entries)
       /\ \A i \in 1..Len(futures) : futures[i].entry = entries[i]
       /\ \A k \in keys :
             Cardinality({i \in 1..Len(results) : Key(results[i]) = k})
                = Cardinality({i \in yielded : Key(futures[i].entry) = k})
       /\ \A i \in 1..Len(results) : results[i].tier_guess \in Tiers
       /\ pc \in {"summary", "exit"} /\ exit_status # Some(1)
             => Len(results) = Len(entries) /\ yielded = 1..Len(entries)

\* a finished run of two entries of one domain, one probe failed and one not
C4_Witness ==
    /\ pc = "exit"
    /\ Len(results) = 2
    /\ entries[1].domain = entries[2].domain
    /\ results[1].error # None
    /\ results[2].error = None

\* C5: at every moment at most 10 probes are running; an eleventh starts only
\* after one of them has finished
C5_AtMostTenRunning == Cardinality(Running) <= 10

\* ten probes running while another waits in the queue
C5_Witness ==
    /\ Cardinality(Running) = 10
    /\ \E i \in 1..Len(futures) : futures[i].state = "PENDING"

\* C6: no entry whose domain is in the Domain Registry is submitted to the
\* Prober, and no result is collected for such a domain
C6_ConfiguredNeverProbed ==
    /\ \A i \in 1..Len(futures) : futures[i].entry.domain \notin configured_domains
    /\ \A i \in 1..Len(results) : results[i].domain \notin configured_domains

\* C7: a result that records an exception has status 0 and tier SKIP
C7_ExceptionMeansStatusZero ==
    \A i \in 1..Len(results) :
        RecordsException(results[i]) =>
            results[i].status = 0 /\ results[i].tier_guess = "SKIP"

\* C8: a probe whose main fetch returned a status >= 400 sent that one request
\* only and returned status = the code, tier SKIP, error "HTTP <code>" and
\* every other field as probe_url initialises it
C8_HttpErrorStopsEarly ==
    \A i \in Finished :
        LET o == futures[i].outcome[1]
            r == o.result
        IN (~o.raised /\ r.status >= 400) =>
              /\ o.requests = <<"GET " \o futures[i].entry.url>>
              /\ r.tier_guess = "SKIP"
              /\ r.error = Some("HTTP " \o Str(r.status))
              /\ r.jsonld_event_count = 0
              /\ ~r.events_subpage
              /\ ~r.tribe_api
              /\ r.candidate_urls = <<>>
              /\ r.tech_stack = "unknown"

\* a collected result of a main fetch answered 404
C8_Witness ==
    \E i \in 1..Len(results) :
        results[i].status = 404 /\ results[i].error = Some("HTTP 404")

\* the run read its inputs and found no candidate: the feed failed or was
\* empty, every entry was filtered out, or the input file was empty
NoCandidates ==
    /\ pc = "exit"
    /\ entries = <<>>
    /\ ~load_configured_domains(config_dir).raised
    /\ args.input # None => input_file.exists

\* C9 as stated: with no candidate the process ends with a non-zero exit
\* status and runs no probe
C9_EmptyExitsNonZero == NoCandidates => exit_status # Some(0) /\ futures = <<>>

\* C9 as amended: with no candidate the process ends with exit status 0,
\* having run no probe, written no TSV and printed no summary
C9_EmptyExitsZeroWithoutProbing ==
    NoCandidates =>
        exit_status = Some(0) /\ futures = <<>> /\ output = <<>> /\ summary = None

\* the feed answered with entries and every one of them was filtered out
C9_Witness ==
    /\ NoCandidates
    /\ args.input = None
    /\ ~FeedFails(feed)
    /\ Len(feed.communities) = 2
    /\ exit_status = Some(0)

\* the rows of a TSV text: its lines without the header
TsvRows(text) == Tail(SelectSeq(Split(text, "\n"), LAMBDA l : l # ""))

\* the run ended normally with all N results in a TSV of N rows
CompletedRun ==
    /\ pc = "exit"
    /\ exit_status = Some(0)
    /\ Len(results) = Len(entries)
    /\ Len(output) = 1
    /\ Len(TsvRows(output[1])) = Len(entries)

\* C10: once at least one candidate is about to be probed, the run eventually
\* ends with exit status 0, all N results collected and a TSV of N rows,
\* however many probes failed
C10_RunCompletes == (pc = "check" /\ entries # <<>>) ~> CompletedRun

\* a completed run in which every probe failed
C10_Witness ==
    /\ CompletedRun
    /\ Len(results) = 2
    /\ \A i \in 1..Len(results) : results[i].error # None


\* the directory has just been fetched and filtered (nothing changes
\* discovered afterwards)
Filtered == args.input = None /\ ~FeedFails(feed) /\ pc = "limit"

\* the first check of the filter that an entry fails, "kept" when it passes
\* all four; the host is the entry's domain as the filter computes it
FirstFailingCheck(entry) ==
    IF entry.link = "" \/ ~StartsWith(entry.link, "http") THEN "no_url"
    ELSE IF \E p \in SKIP_DOMAINS : Contains(DomainOf(entry.link), p) THEN "social"
    ELSE IF DomainOf(entry.link) \in configured_domains THEN "configured"
    ELSE IF \A i \in 1..Len(entry.tags) : \A t \in ARTS_TAGS : ~StartsWith(entry.tags[i], t)
    THEN "no_arts"
    ELSE "kept"

Host(link) == Lower(Netloc(link))

\* a host without a leading "www."
WithoutWww(host) == IF StartsWith(host, "www.") THEN SubSeq(host, 5, Len(host)) ELSE host

\* an http(s) URL with a host
IsAbsoluteUrl(link) ==
    /\ StartsWith(Lower(link), "http://") \/ StartsWith(Lower(link), "https://")
    /\ Netloc(link) # ""

\* none of the four exclusion conditions holds for the raw entry
PassesEveryCheck(entry) ==
    /\ IsAbsoluteUrl(entry.link)
    /\ \A p \in SKIP_DOMAINS : ~Contains(Host(entry.link), p)
    /\ Host(entry.link) \notin configured_domains
    /\ WithoutWww(Host(entry.link)) \notin configured_domains
    /\ \E i \in 1..Len(entry.tags) : \E t \in ARTS_TAGS : StartsWith(entry.tags[i], t)

\* C12: the output of the filter is, in directory order, exactly the raw
\* entries whose link is an absolute URL, whose host matches no denylist
\* pattern, whose host is not in the registry with or without "www.", and
\* that carry a tag beginning with an arts prefix
C12_OutputIsPassingSubsequence ==
    LET passing == SelectSeq(feed.communities, PassesEveryCheck)
    IN Filtered =>
          [i \in 1..Len(discovered.urls) |->
              <<discovered.urls[i].name, discovered.urls[i].url, discovered.urls[i].tags>>]
          = [i \in 1..Len(passing) |->
              <<passing[i].name, passing[i].link, passing[i].tags>>]


\* the URLs of the url: fields of the scanned config files
ConfiguredUrls ==
    IF ~config_dir.exists THEN {}
    ELSE UNION {{m[1] : m \in {UrlFieldMatch(f.lines[i]) : i \in 1..Len(f.lines)} \ {None}} :
                  f \in ScannedFiles(config_dir)}

\* C13: every member of the Domain Registry and the domain of every candidate
\* entry is the host of its URL, lowercased, with a leading "www." removed
\* when present and no other leading character removed
C13_DomainIsHostWithoutWww ==
    /\ pc = "assemble" =>
          configured_domains = {WithoutWww(Host(u)) : u \in ConfiguredUrls}
    /\ pc = "limit" =>
          \A i \in 1..Len(entries) : entries[i].domain = WithoutWww(Host(entries[i].url))


\* the names of the fingerprint rules that match a body
MatchingRules(body) ==
    {TECH_PATTERNS[k].name : k \in {n \in 1..Len(TECH_PATTERNS) :
                                      SearchAny(TECH_PATTERNS[n].alts, body)}}

\* C14 as stated: for every result, tech_stack is not empty, it is {static}
\* exactly when no fingerprint rule matches the response body, and when rules
\* match it is the set of their names
C14_StaticIffNoRuleMatched ==
    \A i \in Finished :
        LET r == CollectedResult(futures[i])
            matching == MatchingRules(futures[i].page.html)
        IN /\ r.tech_stack # ""
           /\ TechNames(r) = {"static"} <=> matching = {}
           /\ matching # {} => TechNames(r) = matching

\* C14 as amended: the result of a probe whose main fetch returned a status
\* below 400 has as tech_stack the names of all matching rules, or static
\* alone when none matches; every other result (HTTP error, exception in the
\* main fetch, a probe that raised) has the tech_stack "unknown"
C14_FingerprintOrUnknown ==
    \A i \in Finished :
        LET r == CollectedResult(futures[i])
            matching == MatchingRules(futures[i].page.html)
        IN IF r.status # 0 /\ r.status < 400
           THEN TechNames(r) = IF matching = {} THEN {"static"} ELSE matching
           ELSE r.tech_stack = "unknown"

\* a collected result of a body that two rules match
C14_Witness ==
    \E i \in Finished :
        /\ futures[i].yielded
        /\ MatchingRules(futures[i].page.html) = {"wordpress", "elementor"}
        /\ results[1].tech_stack = "wordpress,elementor"


\* an anchor whose href is not empty, no fragment and no mailto, and whose
\* href or text holds a keyword
Qualifies(a) ==
    /\ Strip(a.href) # ""
    /\ ~StartsWith(Strip(a.href), "#")
    /\ ~StartsWith(Strip(a.href), "mailto:")
    /\ SearchAny(EVENT_LINK_KEYWORDS, Strip(a.href))
          \/ SearchAny(EVENT_LINK_KEYWORDS, Strip(a.text))

\* a sequence without the later occurrences of its elements
FirstSeen(urls) ==
    LET first == {k \in 1..Len(urls) : \A j \in 1..(k - 1) : urls[j] # urls[k]}
    IN [n \in 1..Cardinality(first) |->
          urls[CHOOSE k \in first : Cardinality({j \in first : j < k}) = n - 1]]

\* the first (up to) 10 distinct resolved qualifying links of a page
FirstTenLinks(anchors, base_url) ==
    LET qualifying == SelectSeq(anchors, Qualifies)
        resolved == [k \in 1..Len(qualifying) |-> urljoin(base_url, Strip(qualifying[k].href))]
        distinct == FirstSeen(resolved)
    IN SubSeq(distinct, 1, Min(10, Len(distinct)))

NoDuplicates(urls) == \A j, k \in 1..Len(urls) : urls[j] = urls[k] => j = k

\* C15 as stated: for every result, candidate_urls has at most 10 entries and
\* no duplicate, and is the first (up to) 10 distinct resolved qualifying
\* links of the page in page order
C15_FirstTenDistinctLinks ==
    \A i \in Finished :
        LET r == CollectedResult(futures[i])
        IN /\ Len(r.candidate_urls) <= 10
           /\ NoDuplicates(r.candidate_urls)
           /\ r.candidate_urls = FirstTenLinks(futures[i].page.anchors, r.final_url)

\* C15 as amended: for every result, candidate_urls has at most 10 entries
\* and no duplicate; for a probe that ended without error it is the first
\* (up to) 10 distinct resolved qualifying links of the page in page order,
\* and for every other probe it is empty
C15_FirstTenDistinctLinksOrEmpty ==
    \A i \in Finished :
        LET r == CollectedResult(futures[i])
        IN /\ Len(r.candidate_urls) <= 10
           /\ NoDuplicates(r.candidate_urls)
           /\ r.candidate_urls =
                 IF r.error = None
                 THEN FirstTenLinks(futures[i].page.anchors, r.final_url)
                 ELSE <<>>

\* a page of 11 distinct listing links after a redirect: the first ten, resolved
C15_Witness ==
    \E i \in Finished :
        /\ Len(SelectSeq(futures[i].page.anchors, Qualifies)) = 11
        /\ Len(CollectedResult(futures[i]).candidate_urls) = 10
        /\ CollectedResult(futures[i]).candidate_urls[10] = "https://www.a.ca/events/10"


RECURSIVE ParseInt(_)
\* the number a string of digits writes
ParseInt(digits) ==
    IF digits = "" THEN 0
    ELSE 10 * ParseInt(SubSeq(digits, 1, Len(digits) - 1))
           + IndexOf(Digits, SubSeq(digits, Len(digits), Len(digits))) - 1

\* a separated list read back: the empty field is the empty list
ParseList(field, sep) == IF field = "" THEN <<>> ELSE Split(field, sep)

\* a row read back by column position
ParseRow(row) ==
    LET column == Split(row, "\t")
    IN [domain |-> column[1], final_url |-> column[2], status |-> ParseInt(column[3]),
        tech_stack |-> ParseList(column[4], ","),
        jsonld_event_count |-> ParseInt(column[5]),
        events_subpage |-> column[6] = "yes", tribe_api |-> column[7] = "yes",
        tier_guess |-> column[8], candidate_urls |-> ParseList(column[9], "|")]

\* the fields of a result that the report carries
Reported(r) ==
    [domain |-> r.domain, final_url |-> r.final_url, status |-> r.status,
     tech_stack |-> ParseList(r.tech_stack, ","),
     jsonld_event_count |-> r.jsonld_event_count,
     events_subpage |-> r.events_subpage, tribe_api |-> r.tribe_api,
     tier_guess |-> r.tier_guess, candidate_urls |-> r.candidate_urls]

\* C16 as stated: the row written for a result splits on tab into nine
\* columns, and read back by column position it reproduces the result's
\* reported fields
C16_TsvRoundTrip ==
    Len(output) = 1 =>
        LET rows == TsvRows(output[1])
        IN /\ Len(rows) = Len(results)
           /\ \A k \in 1..Len(rows) :
                 /\ Len(Split(rows[k], "\t")) = Len(Split(TSV_HEADER, "\t"))
                 /\ Len(Split(rows[k], "\t")) = 9
                 /\ ParseRow(rows[k]) = Reported(results[k])


\* C17: when the directory request fails (network, HTTP status or decoding),
\* discovery returns no candidates and raises nothing, and the feed is
\* requested once only
C17_FailedFeedGivesNothingOnce ==
    /\ [](feed_requests <= 1)
    /\ [][(Discover /\ FeedFails(feed)) =>
             /\ entries' = <<>>
             /\ discovered' = NoCounts
             /\ feed_requests' = 1
             /\ pc' = "limit"
             /\ exit_status' # Some(1)]_vars

\* the directory answered 503 with a body that lists communities
C17_Witness ==
    /\ args.input = None
    /\ feed_requests = 1
    /\ feed.status = 503
    /\ feed.communities # <<>>
    /\ pc = "exit"
    /\ exit_status = Some(0)


\* the lines that hold more than blanks, without the blanks around them
NonBlankLines(lines) ==
    LET kept == SelectSeq(lines, LAMBDA l : Strip(l) # "")
    IN [k \in 1..Len(kept) |-> Strip(kept[k])]

\* main() is past the step that assembles the entries
Assembled == pc \in {"limit", "check", "submit", "collect", "summary"} \/ exit_status = Some(0)

\* C18: a run without an input file requests the feed exactly once; a run
\* with an input file never requests it, and its entries before the cap are
\* the non-blank lines of the file in file order
C18_FeedOnceOrFileLines ==
    /\ feed_requests <= 1
    /\ (args.input = None /\ Assembled) => feed_requests = 1
    /\ args.input # None => feed_requests = 0
    /\ (args.input # None /\ pc = "limit") =>
          [k \in 1..Len(entries) |-> entries[k].url] = NonBlankLines(input_file.lines)

\* a file of a padded line of a configured site and a line of blanks
C18_Witness ==
    /\ args.input # None
    /\ pc = "limit"
    /\ input_file.lines = <<"  https://www.a.ca/ ", "   ">>
    /\ "a.ca" \in configured_domains
    /\ Len(entries) = 1
    /\ feed_requests = 0


\* the first n elements of a sequence, all of them when it has fewer
FirstN(xs, n) == SubSeq(xs, 1, Min(n, Len(xs)))

\* C19 as stated: with a cap N >= 0 on the command line, the entries kept are
\* the first N candidates (all when fewer exist), and the probes submitted
\* are those entries, at most N of them; N = 0 included
C19_CapKeepsFirstN ==
    /\ [][(ApplyLimit /\ args.limit # None) =>
             entries' = FirstN(entries, args.limit[1])]_vars
    /\ [](args.limit # None =>
             /\ Len(futures) <= args.limit[1]
             /\ \A i \in 1..Len(futures) : futures[i].entry = entries[i])


\* the requests of a probe after the first that go to a URL ending in one of paths
SentTo(requests, paths) ==
    {k \in 2..Len(requests) : \E p \in paths : EndsWith(Target(requests[k]), p)}

\* C20 as stated: a probe sends one request for the main fetch, at most two
\* more for the /events/ and /calendar/ checks and at most one more for the
\* tribe check: at most four in all
C20_AtMostFourRequests ==
    \A i \in Finished :
        LET requests == futures[i].outcome[1].requests
        IN /\ Len(requests) <= 4
           /\ requests # <<>> => requests[1] = "GET " \o futures[i].entry.url
           /\ Cardinality(SentTo(requests, {"/events/", "/calendar/"})) <= 2
           /\ Cardinality(SentTo(requests, {TRIBE_PATH})) <= 1

\* C20 as amended: a probe sends one GET for the main fetch (none when the
\* session cannot be made, and then it raises); every later request is the
\* HEAD of a subpage check or the GET that follows that HEAD; each of
\* /events/, /calendar/ and the tribe path gets at most one HEAD, so at most
\* two requests: at most seven in all
C20_AtMostSevenRequests ==
    \A i \in Finished :
        LET o == futures[i].outcome[1]
            requests == o.requests
        IN /\ Len(requests) <= 7
           /\ requests # <<>> => requests[1] = "GET " \o futures[i].entry.url
           /\ requests = <<>> => o.raised
           /\ \A k \in 2..Len(requests) :
                 /\ k \in SentTo(requests, {"/events/", "/calendar/", TRIBE_PATH})
                 /\ \/ StartsWith(requests[k], "HEAD ")
                    \/ requests[k - 1] = "HEAD " \o Target(requests[k])
           /\ \A p \in {"/events/", "/calendar/", TRIBE_PATH} :
                 /\ Cardinality(SentTo(requests, {p})) <= 2
                 /\ Cardinality({k \in SentTo(requests, {p}) :
                                   StartsWith(requests[k], "HEAD ")}) <= 1

\* a probe of a WordPress site whose three subpages all answer HEAD with 405
C20_Witness ==
    \E i \in Finished :
        /\ Len(futures[i].outcome[1].requests) = 7
        /\ Cardinality(SentTo(futures[i].outcome[1].requests, {TRIBE_PATH})) = 2


\* the status that ended the check of a path: that of the last request sent
\* to it; 0 when none was sent
CheckStatus(future, path) ==
    LET sent == SentTo(future.outcome[1].requests, {path})
    IN IF sent = {} THEN 0
       ELSE future.responses[CHOOSE k \in sent : \A j \in sent : j <= k]

\* the names in a result's tech_stack
Fingerprint(r) == Range(Split(r.tech_stack, ","))

\* C21: without wordpress and tribe-events in the fingerprint no request goes
\* to the tribe endpoint and tribe_api is false; with one of them tribe_api
\* is true exactly when the check of that endpoint ended in status 200
C21_TribeOnlyForWordPress ==
    \A i \in Finished :
        LET r == CollectedResult(futures[i])
            asked == SentTo(futures[i].outcome[1].requests, {TRIBE_PATH})
        IN IF Fingerprint(r) \cap {"wordpress", "tribe-events"} = {}
           THEN asked = {} /\ ~r.tribe_api
           ELSE r.tribe_api <=> CheckStatus(futures[i], TRIBE_PATH) = 200

\* a page of the events-calendar plugin whose endpoint refuses HEAD and
\* answers the GET with 200
C21_Witness ==
    \E i \in Finished :
        /\ Fingerprint(CollectedResult(futures[i])) = {"tribe-events"}
        /\ CollectedResult(futures[i]).tribe_api
        /\ Cardinality(SentTo(futures[i].outcome[1].requests, {TRIBE_PATH})) = 2
        /\ futures[i].responses[Len(futures[i].responses)] = 200
        /\ futures[i].responses[Len(futures[i].responses) - 1] = 405


\* the result main() is to build for an entry whose probe raised with a text
FallbackFields(entry, text) ==
    [name |-> entry.name, domain |-> entry.domain, final_url |-> entry.url,
     status |-> 0, tier_guess |-> "SKIP",
     error |-> Some(SubSeq(text, 1, Min(80, Len(text))))]

\* C22: collecting a probe that raised appends exactly one result, with the
\* entry's name and domain, final_url the seed URL, status 0, tier SKIP and
\* error the exception text cut to at most 80 characters; the loop goes on,
\* and the run ends with one result per entry
C22_RaisedProbeStillYieldsResult ==
    /\ [][\A i \in 1..Len(futures) :
             (Collect(i) /\ futures[i].outcome[1].raised) =>
                 /\ Len(results') = Len(results) + 1
                 /\ SubSeq(results', 1, Len(results)) = results
                 /\ LET r == results'[Len(results')]
                    IN /\ [f \in DOMAIN FallbackFields(futures[i].entry, "") |-> r[f]]
                            = FallbackFields(futures[i].entry, futures[i].outcome[1].text)
                       /\ Len(r.error[1]) <= 80
                 /\ pc' = "collect"
                 /\ exit_status' = None]_vars
    /\ []((pc \in {"summary", "exit"} /\ futures # <<>>) => Len(results) = Len(entries))

\* a finished run of two probes: the first collected raised with a text of
\* more than 80 characters, the second was collected after it
C22_Witness ==
    /\ pc = "exit"
    /\ Len(results) = 2
    /\ \E i \in 1..2 : /\ futures[i].outcome[1].raised
                        /\ Len(futures[i].outcome[1].text) > 80
                        /\ results[1].domain = futures[i].entry.domain
    /\ results[1].error # None
    /\ Len(results[1].error[1]) = 80
    /\ results[2].error = None


\* an item that declares an Event: an object whose @type is a string, or a
\* list with a string, that holds "event"
DeclaresEvent(item) ==
    /\ item.is_dict
    /\ item.type.kind \in {"str", "list"}
    /\ \E k \in 1..Len(item.type.strs) :
          item.type.strs[k].is_str /\ SearchAny({"event"}, item.type.strs[k].s)

RECURSIVE EventDeclarations(_)
\* the Event declarations of the blocks of a page that are JSON
EventDeclarations(scripts) ==
    IF scripts = <<>> THEN 0
    ELSE EventDeclarations(Tail(scripts))
         + (IF Head(scripts).parses
            THEN Cardinality({k \in 1..Len(Head(scripts).items) :
                                 DeclaresEvent(Head(scripts).items[k])})
            ELSE 0)

\* the main fetch of a probe delivered a page whose links all resolve
PageRead(future) ==
    /\ future.responses # <<>>
    /\ future.responses[1] \in 1..399
    /\ \A k \in 1..Len(future.page.anchors) : ~Contains(future.page.anchors[k].href, "[")

\* C23 as stated: what cannot be read as an Event declaration (a block that
\* is no JSON, an item that is no object, an @type that is no string and no
\* list of strings) adds 0 to jsonld_event_count, the other blocks are still
\* counted, and the probe does not fail: no error, and T0 when the count is
\* positive
C23_UnreadableJsonLdIsSkipped ==
    \A i \in Finished :
        PageRead(futures[i]) =>
            LET r == CollectedResult(futures[i])
            IN /\ r.error = None
               /\ r.jsonld_event_count = EventDeclarations(futures[i].page.scripts)
               /\ r.jsonld_event_count > 0 => r.tier_guess = "T0"


\* the domains of the config files that can be read: none when the directory
\* is missing, none from files whose name starts with "_"
ReadableDomains(dir) ==
    IF ~dir.exists THEN {}
    ELSE UNION {FileDomains(f) :
                  f \in {g \in dir.files : IsYaml(g.name) /\ ~StartsWith(g.name, "_")
                                             /\ g.readable}}

\* C24 as stated: loading the Domain Registry never fails the run; it yields
\* the domains of every readable file that is no "_" file, the empty set
\* when the directory is missing, and skips unreadable files and lines that
\* hold no url field
C24_RegistryLoadNeverFails ==
    [][LoadConfiguredDomains =>
          /\ pc' = "assemble"
          /\ exit_status' = None
          /\ configured_domains' = ReadableDomains(config_dir)]_vars


\* C25 as stated: a probe whose main fetch ended with a status outside
\* 200..299 is recorded with an error and the tier SKIP
C25_NonSuccessStatusIsSkipped ==
    \A i \in Finished :
        (futures[i].responses # <<>> /\ futures[i].responses[1] \notin {0} \cup (200..299)) =>
            /\ CollectedResult(futures[i]).error # None
            /\ CollectedResult(futures[i]).tier_guess = "SKIP"


IsHeadThenGetOn405(future, path) ==
    LET requests == future.outcome[1].requests
        sent == SentTo(requests, {path})
    IN sent # {} =>
          LET first == CHOOSE k \in sent : \A j \in sent : k <= j
          IN /\ StartsWith(requests[first], "HEAD ")
             /\ IF future.responses[first] = 405
                THEN sent = {first, first + 1}
                     /\ requests[first + 1] = "GET " \o Target(requests[first])
                ELSE sent = {first}

\* C27: for a probe that reached the subpage checks, events_subpage is true
\* if and only if the check of /events/ or that of /calendar/ ended in
\* status 200; a check is a HEAD, followed by a GET only when the HEAD
\* returned 405; a request that raises counts as not found and leaves the
\* probe without error; /calendar/ is requested only when the check of
\* /events/ did not end in 200
C27_EventsSubpageIffCheckEnds200 ==
    \A i \in Finished :
        LET r == CollectedResult(futures[i])
            requests == futures[i].outcome[1].requests
            events == CheckStatus(futures[i], "/events/")
            calendar == CheckStatus(futures[i], "/calendar/")
        IN /\ r.events_subpage <=> (events = 200 \/ calendar = 200)
           /\ IsHeadThenGetOn405(futures[i], "/events/")
           /\ IsHeadThenGetOn405(futures[i], "/calendar/")
           /\ SentTo(requests, {"/calendar/"}) # {} =>
                 SentTo(requests, {"/events/"}) # {} /\ events # 200
           /\ (SentTo(requests, {"/events/"}) # {} /\ events # 200) =>
                 SentTo(requests, {"/calendar/"}) # {}
           /\ SentTo(requests, {"/events/"}) # {} => r.error = None /\ ~futures[i].outcome[1].raised

\* /events/ refused HEAD and its GET raised; /calendar/ refused HEAD and
\* answered the GET with 200
C27_Witness ==
    \E i \in Finished :
        /\ CollectedResult(futures[i]).events_subpage
        /\ CollectedResult(futures[i]).error = None
        /\ Len(futures[i].responses) >= 5
        /\ SubSeq(futures[i].responses, 2, 5) = <<405, 0, 405, 200>>


\* C28: the TSV and the summary exist only when every one of the N probes
\* has finished and its result has been collected, never while a probe is
\* queued or running; the TSV is written once, with the N results, in every
\* run that has candidates and ends
C28_ReportAfterAllCollected ==
    /\ Len(output) <= 1
    /\ (output # <<>> \/ summary # None) =>
          /\ entries # <<>>
          /\ Len(futures) = Len(entries)
          /\ \A i \in 1..Len(futures) : futures[i].state = "FINISHED" /\ futures[i].yielded
          /\ Len(results) = Len(entries)
          /\ Len(output) = 1
          /\ Len(TsvRows(output[1])) = Len(entries)
    /\ summary # None => summary[1].total = Len(entries)
    /\ (pc = "exit" /\ entries # <<>>) => Len(output) = 1 /\ summary # None

\* a finished run of two probes with its TSV and its summary
C28_Witness ==
    /\ pc = "exit"
    /\ Len(entries) = 2
    /\ Len(output) = 1
    /\ summary # None
    /\ summary[1].total = 2


\* C29 as stated: the error list of the summary (and so its count) holds
\* exactly the results whose error is set, in order, each once
C29_SummaryListsEveryError ==
    summary # None =>
        summary[1].errors = SelectSeq(results, LAMBDA r : r.error # None)


\* C30: a result of tier T0, T1 or T2 has no error and a status strictly
\* between 0 and 400; so a result with an error, with status 0 or with a
\* status of 400 or more has the tier SKIP
C30_TieredMeansFetchedWithoutError ==
    \A i \in Finished :
        LET r == CollectedResult(futures[i])
        IN /\ r.tier_guess \in {"T0", "T1", "T2"} =>
                 r.error = None /\ r.status > 0 /\ r.status < 400
           /\ (r.error # None \/ r.status = 0 \/ r.status >= 400) => r.tier_guess = "SKIP"

\* a page with Event JSON-LD after a redirect is T0; nothing failed
C30_Witness ==
    \E i \in Finished :
        /\ CollectedResult(futures[i]).tier_guess = "T0"
        /\ CollectedResult(futures[i]).status = 203
        /\ CollectedResult(futures[i]).error = None
        /\ CollectedResult(futures[i]).final_url # futures[i].entry.url

====
